---- MODULE Spec2Model ----
(***************************************************************************)
(* Supervisor / worker orchestration of first_tests/francis_agency.py:     *)
(* the root graph (super_graph) with its three team-bound workers, the     *)
(* three nested team graphs (research_graph, flight_graph, hotel_graph)    *)
(* with their capability-bound workers, and the driver loop that streams   *)
(* the root graph once per user input.                                     *)
(*                                                                         *)
(* The graph engine itself (langgraph's Pregel loop) is a library: its     *)
(* rules are modelled as the code relies on them: a node's Command is      *)
(* applied as one update, `goto` names the next node, a goto that names no *)
(* node of the graph schedules nothing, and a run performs at most         *)
(* recursion_limit node executions.                                        *)
(***************************************************************************)
EXTENDS Integers, Sequences, FiniteSets, TLC

(* ------------------------------------------------------------------ *)
(* Bounds of the model.                                                *)
(* ------------------------------------------------------------------ *)

\* The driver loop reads a further input only while the session log is
\* shorter than this: the log grows without bound in the source.
MaxSession == 2

\* The step ceiling handed to super_graph.stream ({"recursion_limit": 100}
\* in the source), scaled down so that a breach is within reach.
RecursionLimit == 4

\* The step ceiling in force in a nested graph's own run
\* (research_graph / flight_graph / hotel_graph .invoke), scaled down likewise.
SubRecursionLimit == 3

(* ------------------------------------------------------------------ *)
(* Values.                                                             *)
(* ------------------------------------------------------------------ *)

\* Python's None, and a state key that was never written.
None == "<None>"
Unset == "<unset>"

\* langgraph.graph.END and the node names.
END == "__end__"
FINISH == "FINISH"
Supervisor == "supervisor"

\* What a user may type (non-empty, not "exit").
UserInputs == {"u"}

\* The oracle's free-text fields: absent (None), empty, blank or populated.
InstructionValues == {None, "", " ", "i"}
AnswerValues == {None, "", "a"}

\* A routing name that is no member of any team.
UnknownWorker == "unknown_worker"

\* What a capability-bound worker's inner agent may answer last.
AgentResults == {"r"}

\* How a capability's HTTP call may go: answered, or failed with a
\* requests.exceptions.RequestException (connection, timeout, 401, 429).
CapabilityOutcomes == {"ok", "RequestException"}

\* What stands for a call that raises instead of returning.
Raised == "<raised>"

\* Mutant: the capability lets the RequestException through.
tool_run_propagates(outcome) ==
    IF outcome = "RequestException" THEN Raised ELSE "r"

\* FlightSearchTool._run / HotelSearchTool._run: the string handed back to the
\* worker's agent. A RequestException is caught and turned into a string.
tool_run(outcome) ==
    IF outcome = "RequestException" THEN "Error during API call" ELSE "r"

\* The content of the inner agent's last message once its capability has
\* returned: the language model either relays what the capability returned or
\* answers in words of its own.
agent_invoke(tool_output) == AgentResults \cup {tool_output}

\* The inner agent's iteration ceiling: agent.invoke(state) is given no config,
\* so the library's default recursion limit applies (25 there).
AgentRecursionLimit == 5

\* What the agent's model says when it must stop one step short of the ceiling
\* (library versions that keep count of the remaining steps).
NeedMoreSteps == "Sorry, need more steps to process this request."

\* Members of the root team, as given to make_supervisor_node.
RootMembers == {"research_team", "trip_planner", "accomodation_agent"}

\* Members of each nested team, as given to make_supervisor_node.
TeamMembers(team) ==
    CASE team = "research_team" -> {"search", "meteo"}
      [] team = "trip_planner" -> {"flight"}
      [] team = "accomodation_agent" -> {"hotel"}

\* Nodes added to each graph by add_node.
RootNodes == {Supervisor} \cup RootMembers
TeamNodes(team) == {Supervisor} \cup TeamMembers(team)

\* Keys of the driver's emoji_dict.
emoji_dict == {Supervisor, "research_team", "trip_planner", "accomodation_agent"}

HumanMessage(content, name) == [content |-> content, name |-> name]

\* The Router structured output: what the oracle may return for a team.
Router(members) ==
    [next : members \cup {FINISH, UnknownWorker},
     instructions : InstructionValues,
     answer : AnswerValues]

\* The same for a nested team, whose instructions no node and no driver ever
\* reads: absent, or populated with words of the nested supervisor's own.
NestedRouter(members) ==
    [next : members \cup {FINISH, UnknownWorker},
     instructions : {None, "j"},
     answer : AnswerValues]

\* str.strip() on the strings of the model.
Strip(s) == IF s = " " THEN "" ELSE s

Last(seq) == seq[Len(seq)]

(* ------------------------------------------------------------------ *)
(* State.                                                              *)
(* ------------------------------------------------------------------ *)

VARIABLES
    pc,           \* where the driver loop stands: "input", "stream" (the root
                  \* graph is about to tick), "invoke" (a team node is running
                  \* its nested graph), "output" (the driver handles a streamed
                  \* update), "apply" (the root graph applies that update), "exit"
    turn,         \* user inputs accepted so far
    state,        \* the driver's state["messages"]: the session log
    super,        \* the running super_graph: its State channels, the node its
                  \* last Command routed to, and the nodes it has run
    sub,          \* the nested graph run of the active team node, or NoSub
    output,       \* the update the root graph has streamed to the driver
    status,       \* how the current turn stands: "idle", "running", "completed"
                  \* or the name of the exception that ended it
    raised_by,    \* the graph whose run raised that exception, or None
    transitions,  \* history: node executions of each nested team in this turn
    turn_start,   \* history: the session log when the turn's input was read
    recursion_limit, \* the "recursion_limit" of the config super_graph.stream
                  \* is given
    observation,  \* history: what the capability last called in the running
                  \* nested graph returned to its worker's agent, or None
    replay,       \* a team graph invoked twice on one seed with scripted
                  \* stubs (see SpecReplay), or NoReplay
    agent,        \* the inner agent run of a capability-bound worker, stepped
                  \* node by node (see SpecAgent), or NoAgent; history once
                  \* the worker has returned (goto "returned")
    chat,         \* the single-agent chatbot program (langgraph_test.py): its
                  \* loop, its checkpointed thread and the running graph
    app,          \* the chat page (test_front_back/app.py): st.session_state,
                  \* the form's last submission and the text the backend is
                  \* working on (<<>> when it is not called)
    flights,      \* a call of FlightSearchTool._run: its arguments and the
                  \* request it has built
    whatsapp      \* a call of WhatsAppTool._run: its arguments, the messages
                  \* it has sent and what was returned

\* The programs of the repository other than the agency.
others == <<chat, app, flights, whatsapp>>

vars == <<pc, turn, state, super, sub, output, status, raised_by,
          transitions, turn_start, recursion_limit, observation, replay, agent, others>>

NoSub == [team |-> None, messages |-> <<>>, next |-> Unset,
          instructions |-> Unset, goto |-> END, trace |-> <<>>]
NoOutput == [node |-> None, next |-> Unset, instructions |-> Unset,
             answer |-> Unset, digest |-> <<>>, goto |-> END]

(* ------------------------------------------------------------------ *)
(* The nodes' Commands.                                                *)
(* ------------------------------------------------------------------ *)

\* Mutant: FINISH sends the team back to its supervisor instead of to END.
supervisor_goto_never_ends(response) ==
    IF response.next = FINISH THEN Supervisor ELSE response.next

\* supervisor_node: FINISH becomes END, any other name is routed to as is.
supervisor_goto(response) ==
    IF response.next = FINISH THEN END ELSE response.next

\* supervisor_node: the Command returned for the oracle's response.
supervisor_node(response) ==
    [node |-> Supervisor,
     goto |-> supervisor_goto(response),
     next |-> supervisor_goto(response),
     instructions |-> response.instructions,
     answer |-> response.answer,
     digest |-> <<>>]

\* Mutant: a worker ends its team.
worker_goto_end == END

\* Where every worker node's Command routes to.
worker_goto == Supervisor

\* A message of the worker's inner agent: written by its model, or by its
\* capability (named after it).
AIMessage(content) == [content |-> content, name |-> None]
ToolMessage(content, tool) == [content |-> content, name |-> tool]

\* What the worker hands its inner agent: the team's State as it stands.
agent_input(g) == g.messages

\* Mutant: the worker forwards every message of its agent's run.
worker_node_forwards_log(name, result) ==
    [node |-> name,
     goto |-> worker_goto,
     next |-> Unset,
     instructions |-> Unset,
     answer |-> Unset,
     digest |-> [i \in 1..Len(result) |-> HumanMessage(result[i].content, name)]]

\* search_node, meteo_node, search_flight_node, search_hotel_node: the Command
\* returned once the inner agent has returned the messages `result`.
worker_node(name, result) ==
    [node |-> name,
     goto |-> worker_goto,
     next |-> Unset,
     instructions |-> Unset,
     answer |-> Unset,
     digest |-> <<HumanMessage(Last(result).content, name)>>]

\* call_research_team, call_trip_team, call_accomodation_team: the message the
\* nested graph is started on.
content_to_send(g) ==
    LET instructions == IF g.instructions = Unset THEN "" ELSE g.instructions
    IN  IF Strip(instructions) # ""
        THEN Strip(instructions)
        ELSE Last(g.messages).content

\* Mutant: the nested graph is started on the parent's log and the seed.
local_state_inherits_log(team, g) ==
    [team |-> team,
     messages |-> Append(g.messages, HumanMessage(content_to_send(g), team)),
     next |-> g.next,
     instructions |-> g.instructions,
     goto |-> Supervisor,
     trace |-> <<>>]

\* Mutant: a later invocation of a team's graph resumes the State its earlier
\* invocation ended on (as a graph compiled with a checkpointer would).
local_state_resumes(team, g) ==
    IF Len(replay.done) > 0
    THEN [replay.done[1].run EXCEPT !.trace = <<>>]
    ELSE [team |-> team,
          messages |-> <<HumanMessage(content_to_send(g), team)>>,
          next |-> Unset,
          instructions |-> Unset,
          goto |-> Supervisor,
          trace |-> <<>>]

\* call_*_team: the State the nested graph is invoked on.
local_state(team, g) ==
    [team |-> team,
     messages |-> <<HumanMessage(content_to_send(g), team)>>,
     next |-> Unset,
     instructions |-> Unset,
     goto |-> Supervisor,
     trace |-> <<>>]

\* Mutant: the whole nested log is handed up, re-attributed to the team.
team_digest_whole_log(team, sub_result) ==
    [i \in 1..Len(sub_result.messages) |->
        HumanMessage(sub_result.messages[i].content, team)]

\* Mutant: the nested log's last message is handed up under its own author.
team_digest_keeps_author(team, sub_result) == <<Last(sub_result.messages)>>

\* call_*_team: the messages of the Command returned for the nested run's result.
team_digest(team, sub_result) ==
    <<HumanMessage(Last(sub_result.messages).content, team)>>

\* Mutant: the nested team's END is passed on to the parent.
call_team_ends_parent(team, sub_result) ==
    [node |-> team,
     goto |-> IF sub_result.next = END THEN END ELSE worker_goto,
     next |-> IF sub_result.next = END THEN END ELSE Unset,
     instructions |-> Unset,
     answer |-> Unset,
     digest |-> team_digest(team, sub_result)]

\* call_*_team: the Command returned for the nested run's result.
call_team(team, sub_result) ==
    [node |-> team,
     goto |-> worker_goto,
     next |-> Unset,
     instructions |-> Unset,
     answer |-> Unset,
     digest |-> team_digest(team, sub_result)]

(* ------------------------------------------------------------------ *)
(* The graph engine, as the code relies on it.                         *)
(* ------------------------------------------------------------------ *)

\* The add_messages reducer of MessagesState: a string is taken as one unnamed
\* message, a list of messages is appended. (None is no message: see Updatable.)
add_messages(left, command) ==
    left \o (IF command.answer = Unset
             THEN <<>>
             ELSE <<HumanMessage(command.answer, None)>>)
         \o command.digest

\* A Command whose update the reducer accepts.
Updatable(command) == command.answer # None

\* Mutant: instructions are written only when the Command brings some.
apply_writes_keeps_instructions(g, command) ==
    [g EXCEPT !.messages = add_messages(g.messages, command),
              !.next = IF command.next = Unset THEN @ ELSE command.next,
              !.instructions = IF command.instructions \in {Unset, None, ""}
                               THEN @ ELSE command.instructions,
              !.goto = command.goto]

\* A graph run after a node's Command has been applied.
apply_writes(g, command) ==
    [g EXCEPT !.messages = add_messages(g.messages, command),
              !.next = IF command.next = Unset THEN @ ELSE command.next,
              !.instructions = IF command.instructions = Unset
                               THEN @ ELSE command.instructions,
              !.goto = command.goto]

\* The nodes a run executes next: the node routed to, if the graph has it.
tasks(g, nodes) == IF g.goto \in nodes THEN {g.goto} ELSE {}

\* Mutant: the ceiling is tested one node too late.
within_limit_off_by_one(g, limit) == Len(g.trace) <= limit

\* A run may execute one more node.
within_limit(g, limit) == Len(g.trace) < limit

(* ------------------------------------------------------------------ *)
(* The driver loop.                                                    *)
(* ------------------------------------------------------------------ *)

\* No graph is running.
NoRun == [NoSub EXCEPT !.team = "super"]
NoReplay == [team |-> None, seed |-> NoSub, stub |-> None,
             current |-> NoSub, done |-> <<>>]
NoTransitions == [t \in RootMembers |-> 0]
NoAgent == [name |-> None, messages |-> <<>>, goto |-> END, trace |-> <<>>]

\* The other programs of the repository are not running.
NoChat == [pc |-> "off", messages |-> <<>>, goto |-> END, trace |-> <<>>,
           status |-> "idle", inputs |-> 0]
NoApp == [messages |-> <<>>, submitted |-> <<>>, running |-> <<>>, runs |-> 0]
NoCall == [stage |-> "idle", args |-> None, request |-> <<>>, out |-> None]
Elsewhere ==
    /\ chat = NoChat
    /\ app = NoApp
    /\ flights = NoCall
    /\ whatsapp = NoCall

\* The program as the loop is first entered, streaming under `limit`.
Start(limit) ==
    /\ pc = "input"
    /\ turn = 0
    /\ state = <<>>
    /\ super = NoRun
    /\ sub = NoSub
    /\ output = NoOutput
    /\ status = "idle"
    /\ raised_by = None
    /\ transitions = NoTransitions
    /\ turn_start = <<>>
    /\ recursion_limit = limit
    /\ observation = None
    /\ replay = NoReplay
    /\ agent = NoAgent
    /\ Elsewhere

Init == Start(RecursionLimit)

\* The for loop is left: the driver prompts again. The nested run is gone,
\* the root run stays as it stood (nothing reads it again).
end_of_turn(how, who) ==
    /\ pc' = "input"
    /\ status' = how
    /\ raised_by' = who
    /\ output' = NoOutput
    /\ sub' = NoSub
    /\ transitions' = NoTransitions
    /\ UNCHANGED super

\* Mutant: the handler drops what the turn's nodes had added to the log.
except_Exception_rollback(messages) ==
    SubSeq(messages, 1, Len(turn_start) + 1)

\* `except Exception as e: print(...)`: the session log the handler leaves,
\* given the log the loop body had made.
except_Exception(messages) == messages

\* An exception `e` reaches the driver loop from `who`, the session log
\* standing at `messages`.
raise(e, who, messages) ==
    /\ end_of_turn(e, who)
    /\ state' = except_Exception(messages)

\* A non-empty line other than "exit" is read: it is appended to the session
\* log and the root graph is streamed on that log. (An empty line prompts
\* again and changes nothing.)
user_input ==
    /\ pc = "input"
    /\ Len(state) < MaxSession
    /\ \E user_input_ \in UserInputs :
          /\ state' = Append(state, HumanMessage(user_input_, "user"))
          /\ super' = [team |-> "super", messages |-> state', next |-> Unset,
                       instructions |-> Unset, goto |-> Supervisor,
                       trace |-> <<>>]
    /\ turn' = turn + 1
    /\ pc' = "stream"
    /\ status' = "running"
    /\ raised_by' = None
    /\ turn_start' = state
    /\ observation' = None
    /\ UNCHANGED <<sub, output, transitions, recursion_limit, replay, agent, others>>

\* "exit" is read: the loop breaks.
exit ==
    /\ pc = "input"
    /\ pc' = "exit"
    /\ UNCHANGED <<turn, state, super, sub, output, status, raised_by,
                   transitions, turn_start, recursion_limit, observation, replay, agent, others>>

\* Mutant: the driver keeps only the latest message of a turn, overwriting the
\* last entry of the session log.
driver_append_replaces_last(messages, o) ==
    IF Len(o.digest) > 0
    THEN [messages EXCEPT ![Len(messages)] = Last(o.digest)]
    ELSE IF o.node = Supervisor /\ o.answer # None /\ o.answer # ""
    THEN [messages EXCEPT ![Len(messages)] = HumanMessage(o.answer, o.node)]
    ELSE messages

\* Mutant: the driver appends supervisors' answers only.
driver_append_skips_teams(messages, o) ==
    IF o.node = Supervisor /\ o.answer # None /\ o.answer # ""
    THEN Append(messages, HumanMessage(o.answer, o.node))
    ELSE messages

\* The body of the for loop on one streamed update: the session log after it,
\* whatever it raises.
driver_append(messages, o) ==
    IF o.node = Supervisor
    THEN IF o.answer # None /\ o.answer # ""
         THEN Append(messages, HumanMessage(o.answer, o.node))
         ELSE messages
    ELSE IF Len(o.digest) > 0
         THEN Append(messages, Last(o.digest))
         ELSE messages

\* The body of the for loop on one streamed update: the exception it raises,
\* or None.
driver_raises(o) ==
    IF o.node = Supervisor /\ o.answer = None
    THEN "TypeError"
    ELSE IF o.instructions = Unset \/ o.instructions = ""
    THEN None
    ELSE IF o.instructions = None
    THEN "TypeError"
    ELSE IF o.node \in emoji_dict /\ o.next \in emoji_dict
    THEN None
    ELSE "KeyError"

\* The body of the for loop runs on the streamed update.
driver_output ==
    /\ pc = "output"
    /\ IF driver_raises(output) = None
       THEN /\ state' = driver_append(state, output)
            /\ pc' = "apply"
            /\ UNCHANGED <<output, status, raised_by, super, sub, transitions>>
       ELSE raise(driver_raises(output), "driver", driver_append(state, output))
    /\ UNCHANGED <<turn, turn_start, recursion_limit, observation, replay, agent, others>>

(* ------------------------------------------------------------------ *)
(* The root graph's run.                                               *)
(* ------------------------------------------------------------------ *)

\* The supervisor node of super_graph runs: the oracle answers and the node's
\* Command is streamed to the driver.
super_supervisor ==
    /\ pc = "stream"
    /\ tasks(super, RootNodes) = {Supervisor}
    /\ within_limit(super, recursion_limit)
    /\ \E response \in Router(RootMembers) :
          output' = supervisor_node(response)
    /\ super' = [super EXCEPT !.trace = Append(@, Supervisor)]
    /\ pc' = "output"
    /\ UNCHANGED <<turn, state, sub, status, raised_by, transitions,
                   turn_start, recursion_limit, observation, replay, agent, others>>

\* The driver asks for the next update: the root graph applies the Command it
\* has streamed.
super_apply ==
    /\ pc = "apply"
    /\ IF Updatable(output)
       THEN /\ super' = apply_writes(super, output)
            /\ pc' = "stream"
            /\ output' = NoOutput
            /\ UNCHANGED <<state, status, raised_by, sub, transitions>>
       ELSE raise("NotImplementedError", "super", state)
    /\ UNCHANGED <<turn, turn_start, recursion_limit, observation, replay, agent, others>>

\* A team node of super_graph starts: it seeds a new State and invokes its
\* nested graph on it.
call_team_invoke ==
    /\ pc = "stream"
    /\ within_limit(super, recursion_limit)
    /\ \E team \in tasks(super, RootMembers) :
          IF super.instructions = None
          THEN raise("AttributeError", "super", state)
          ELSE /\ super' = [super EXCEPT !.trace = Append(@, team)]
               /\ sub' = local_state(team, super)
               /\ pc' = "invoke"
               /\ UNCHANGED <<state, output, status, raised_by, transitions>>
    /\ UNCHANGED <<turn, turn_start, recursion_limit, observation, replay, agent, others>>

\* The nested graph has ended: the team node returns its Command, which is
\* streamed to the driver.
call_team_return ==
    /\ pc = "invoke"
    /\ tasks(sub, TeamNodes(sub.team)) = {}
    /\ output' = call_team(sub.team, sub)
    /\ sub' = NoSub
    /\ observation' = None
    /\ pc' = "output"
    /\ UNCHANGED <<turn, state, super, status, raised_by, transitions,
                   turn_start, recursion_limit, replay, agent, others>>

\* The root graph has no node left to run: the for loop ends.
super_done ==
    /\ pc = "stream"
    /\ tasks(super, RootNodes) = {}
    /\ end_of_turn("completed", None)
    /\ UNCHANGED <<turn, state, turn_start, recursion_limit, observation, replay, agent, others>>

\* Mutant: the ceiling is enforced one node too early.
super_recursion_error_early ==
    /\ pc = "stream"
    /\ Len(super.trace) + 1 >= recursion_limit
    /\ raise("GraphRecursionError", "super", state)
    /\ UNCHANGED <<turn, turn_start, recursion_limit, observation, replay, agent, others>>

\* Mutant: at the ceiling the stream just stops and the turn ends as completed.
super_recursion_error_silent ==
    /\ pc = "stream"
    /\ ~within_limit(super, recursion_limit)
    /\ end_of_turn("completed", None)
    /\ UNCHANGED <<turn, state, turn_start, recursion_limit, observation, replay, agent, others>>

\* The root graph has run recursion_limit nodes: GraphRecursionError.
super_recursion_error ==
    /\ pc = "stream"
    /\ ~within_limit(super, recursion_limit)
    /\ raise("GraphRecursionError", "super", state)
    /\ UNCHANGED <<turn, turn_start, recursion_limit, observation, replay, agent, others>>

(* ------------------------------------------------------------------ *)
(* A nested graph's run.                                               *)
(* ------------------------------------------------------------------ *)

\* Mutant: a nested node's Command is also written to the parent's log while
\* the parent's team node is still running.
sub_step_writes_parent(command) ==
    /\ sub' = [apply_writes(sub, command) EXCEPT !.trace = Append(@, command.node)]
    /\ transitions' = [transitions EXCEPT ![sub.team] = @ + 1]
    /\ super' = [super EXCEPT !.messages = add_messages(@, command)]
    /\ UNCHANGED <<pc, state, status, raised_by, output>>

\* A node of the nested graph has run and its Command is applied.
sub_step(command) ==
    /\ sub' = [apply_writes(sub, command) EXCEPT !.trace = Append(@, command.node)]
    /\ transitions' = [transitions EXCEPT ![sub.team] = @ + 1]
    /\ UNCHANGED <<pc, state, status, raised_by, output, super>>

\* The supervisor node of the nested graph runs.
sub_supervisor ==
    /\ pc = "invoke"
    /\ tasks(sub, TeamNodes(sub.team)) = {Supervisor}
    /\ within_limit(sub, SubRecursionLimit)
    /\ \E response \in NestedRouter(TeamMembers(sub.team)) :
          IF Updatable(supervisor_node(response))
          THEN sub_step(supervisor_node(response))
          ELSE raise("NotImplementedError", sub.team, state)
    /\ UNCHANGED <<turn, turn_start, recursion_limit, observation, replay, agent, others>>

\* A capability-bound worker of the nested graph runs its agent, which calls
\* the worker's capability and answers.
sub_worker ==
    /\ pc = "invoke"
    /\ within_limit(sub, SubRecursionLimit)
    /\ \E name \in tasks(sub, TeamMembers(sub.team)) :
       \E outcome \in CapabilityOutcomes :
          IF tool_run(outcome) = Raised
          THEN /\ raise(outcome, sub.team, state)
               /\ UNCHANGED observation
          ELSE \E result \in agent_invoke(tool_run(outcome)) :
                  /\ sub_step(worker_node(name, Append(agent_input(sub),
                                                       AIMessage(result))))
                  /\ observation' = tool_run(outcome)
    /\ UNCHANGED <<turn, turn_start, recursion_limit, replay, agent, others>>

\* The nested graph has run its recursion limit of nodes: GraphRecursionError,
\* which no team node catches.
sub_recursion_error ==
    /\ pc = "invoke"
    /\ ~within_limit(sub, SubRecursionLimit)
    /\ raise("GraphRecursionError", sub.team, state)
    /\ UNCHANGED <<turn, turn_start, recursion_limit, observation, replay, agent, others>>

\* The decision backend cannot be reached: llm.invoke raises in the node that
\* is about to run, and nothing catches it before the driver.
oracle_unavailable ==
    /\ \/ /\ pc = "stream"
          /\ tasks(super, RootNodes) = {Supervisor}
          /\ within_limit(super, recursion_limit)
          /\ raise("OracleUnavailable", "super", state)
       \/ /\ pc = "invoke"
          /\ tasks(sub, TeamNodes(sub.team)) # {}
          /\ within_limit(sub, SubRecursionLimit)
          /\ raise("OracleUnavailable", sub.team, state)
    /\ UNCHANGED <<turn, turn_start, recursion_limit, observation, replay, agent, others>>

Next ==
    \/ user_input
    \/ exit
    \/ driver_output
    \/ super_supervisor
    \/ super_apply
    \/ call_team_invoke
    \/ call_team_return
    \/ super_done
    \/ super_recursion_error
    \/ sub_supervisor
    \/ sub_worker
    \/ sub_recursion_error
    \/ oracle_unavailable

Spec == Init /\ [][Next]_vars

\* Ctrl-C: KeyboardInterrupt is raised in whatever statement of the try block
\* is running (the prompt, the stream, a node, a nested graph's node, the body
\* of the for loop); the handler prints and breaks out of the loop.
keyboard_interrupt ==
    /\ pc \in {"input", "stream", "invoke", "output", "apply"}
    /\ pc' = "exit"
    /\ status' = "KeyboardInterrupt"
    /\ raised_by' = (IF pc = "invoke" THEN sub.team
                     ELSE IF pc \in {"stream", "apply"} THEN "super"
                     ELSE "driver")
    /\ sub' = NoSub
    /\ output' = NoOutput
    /\ transitions' = NoTransitions
    /\ observation' = None
    /\ UNCHANGED <<turn, state, super, turn_start, recursion_limit, replay, agent, others>>

\* The program with a user who may press Ctrl-C.
NextInterrupt ==
    \/ user_input
    \/ exit
    \/ driver_output
    \/ super_supervisor
    \/ super_apply
    \/ call_team_invoke
    \/ call_team_return
    \/ super_done
    \/ super_recursion_error
    \/ sub_supervisor
    \/ sub_worker
    \/ sub_recursion_error
    \/ oracle_unavailable
    \/ keyboard_interrupt

SpecInterrupt == Init /\ [][NextInterrupt]_vars

\* Once an input is accepted, the statements of the loop body run on: every
\* call the body makes (the stream, a node, the oracle, a capability) returns
\* or raises.
turn_step ==
    \/ driver_output
    \/ super_supervisor
    \/ super_apply
    \/ call_team_invoke
    \/ call_team_return
    \/ super_done
    \/ super_recursion_error
    \/ sub_supervisor
    \/ sub_worker
    \/ sub_recursion_error
    \/ oracle_unavailable

SpecLive == Init /\ [][Next]_vars /\ WF_vars(turn_step)

\* The same program streamed under a step ceiling of 3 (scenario D).
InitD == Start(3)
SpecD == InitD /\ [][Next]_vars

(* ------------------------------------------------------------------ *)
(* A team node called twice on the same parent state, its oracle, its  *)
(* capability and its agent's model replaced by stubs that answer by   *)
(* script.                                                             *)
(* ------------------------------------------------------------------ *)

\* Supervisor calls a nested run can make within its ceiling.
ScriptLen == (SubRecursionLimit + 1) \div 2

\* What a scripted oracle may answer for a team.
StubResponses(members) ==
    [next : members \cup {FINISH, UnknownWorker},
     instructions : {""},
     answer : AnswerValues]

\* The stubs: the oracle's answer to its k-th call of an invocation, how the
\* capability's call goes, and whether the agent's model relays its output.
Stubs(team) ==
    [oracle : [1..ScriptLen -> StubResponses(TeamMembers(team))],
     capability : CapabilityOutcomes,
     relays : BOOLEAN]

\* The parent states a team node is called on: the user's message and the
\* supervisor's (empty) answer, with or without instructions.
Seeds ==
    {[NoRun EXCEPT !.messages = <<HumanMessage(u, "user"), HumanMessage("", None)>>,
                   !.instructions = i,
                   !.goto = Supervisor] :
        u \in UserInputs, i \in {"", "i"}}

InitReplay ==
    /\ pc = "input"
    /\ turn = 0
    /\ state = <<>>
    /\ super = NoRun
    /\ sub = NoSub
    /\ output = NoOutput
    /\ status = "idle"
    /\ raised_by = None
    /\ transitions = NoTransitions
    /\ turn_start = <<>>
    /\ recursion_limit = RecursionLimit
    /\ observation = None
    /\ agent = NoAgent
    /\ Elsewhere
    /\ \E team \in RootMembers, seed \in Seeds :
       \E stub \in Stubs(team) :
          replay = [team |-> team, seed |-> seed, stub |-> stub,
                    current |-> NoSub, done |-> <<>>]

Calls(g) == Cardinality({i \in 1..Len(g.trace) : g.trace[i] = Supervisor})

\* The Command of the node the invocation runs next, under the stubs.
stub_command(g, stub) ==
    IF g.goto = Supervisor
    THEN supervisor_node(stub.oracle[Calls(g) + 1])
    ELSE worker_node(g.goto,
                     Append(agent_input(g),
                            AIMessage(IF stub.relays
                                      THEN tool_run(stub.capability)
                                      ELSE CHOOSE r \in AgentResults : TRUE)))

replay_frame ==
    UNCHANGED <<pc, turn, state, super, sub, output, status, raised_by,
                transitions, turn_start, recursion_limit, observation, agent, others>>

\* The invocation is over: what it ended on, returned and raised is kept.
replay_end(out, e) ==
    replay' = [replay EXCEPT
                  !.done = Append(@, [run |-> replay.current,
                                      out |-> out, error |-> e]),
                  !.current = NoSub]

\* The team node is called: <graph>.invoke(local_state).
replay_invoke ==
    /\ replay.current = NoSub
    /\ Len(replay.done) < 2
    /\ replay' = [replay EXCEPT
                     !.current = local_state(replay.team, replay.seed)]
    /\ replay_frame

\* The invoked graph runs its next node, or raises.
replay_node ==
    /\ tasks(replay.current, TeamNodes(replay.team)) # {}
    /\ LET g == replay.current
           command == stub_command(g, replay.stub)
       IN  IF ~within_limit(g, SubRecursionLimit)
           THEN replay_end(NoOutput, "GraphRecursionError")
           ELSE IF ~Updatable(command)
           THEN replay_end(NoOutput, "NotImplementedError")
           ELSE replay' = [replay EXCEPT
                              !.current = [apply_writes(g, command) EXCEPT
                                              !.trace = Append(@, command.node)]]
    /\ replay_frame

\* The invoked graph is at END: the team node returns its Command.
replay_return ==
    /\ replay.current # NoSub
    /\ tasks(replay.current, TeamNodes(replay.team)) = {}
    /\ replay_end(call_team(replay.team, replay.current), None)
    /\ replay_frame

NextReplay ==
    \/ replay_invoke
    \/ replay_node
    \/ replay_return

SpecReplay == InitReplay /\ [][NextReplay]_vars

(* ------------------------------------------------------------------ *)
(* A capability-bound worker's execution, its inner agent stepped node *)
(* by node: the agent's model either calls the capability or answers,  *)
(* the capability's result is appended to the agent's own messages,    *)
(* and the model is asked again.                                       *)
(* ------------------------------------------------------------------ *)

\* The capability each worker's agent is created with.
Capability(name) ==
    CASE name = "search" -> "tavily_search_results_json"
      [] name = "meteo" -> "weather_forecast_tool"
      [] name = "flight" -> "flight_search_tool"
      [] name = "hotel" -> "hotel_search_tool"

\* A team whose supervisor has just routed to one of its workers, inside a
\* turn whose root supervisor has delegated to the team.
InitAgent ==
    /\ pc = "invoke"
    /\ turn = 1
    /\ output = NoOutput
    /\ status = "running"
    /\ raised_by = None
    /\ turn_start = <<>>
    /\ recursion_limit = RecursionLimit
    /\ observation = None
    /\ replay = NoReplay
    /\ agent = NoAgent
    /\ Elsewhere
    /\ \E team \in RootMembers, seed \in Seeds :
       \E response \in NestedRouter(TeamMembers(team)) :
          /\ response.next \in TeamMembers(team)
          /\ Updatable(supervisor_node(response))
          /\ state = <<seed.messages[1]>>
          /\ super = [seed EXCEPT !.next = team, !.goto = team,
                                  !.trace = <<Supervisor, team>>]
          /\ sub = [apply_writes(local_state(team, seed),
                                 supervisor_node(response))
                       EXCEPT !.trace = <<Supervisor>>]
          /\ transitions = [NoTransitions EXCEPT ![team] = 1]

agent_frame ==
    UNCHANGED <<turn, turn_start, recursion_limit, replay, others>>

\* The worker node begins: <agent>.invoke(state).
agent_start ==
    /\ pc = "invoke"
    /\ agent = NoAgent
    /\ \E name \in tasks(sub, TeamMembers(sub.team)) :
          agent' = [name |-> name, messages |-> agent_input(sub),
                    goto |-> "agent", trace |-> <<>>]
    /\ UNCHANGED <<pc, state, super, sub, output, status, raised_by,
                   transitions, observation>>
    /\ agent_frame

\* The agent's model is asked: it calls the capability or answers. Asked at
\* the last step the ceiling allows and wanting another call, it either makes
\* the call anyway or gives up in words, as the library version has it.
agent_model ==
    /\ pc = "invoke"
    /\ agent.goto = "agent"
    /\ within_limit(agent, AgentRecursionLimit)
    /\ \/ agent' = [agent EXCEPT !.messages = Append(@, AIMessage("")),
                                 !.goto = "tools",
                                 !.trace = Append(@, "agent")]
       \/ /\ Len(agent.trace) + 1 = AgentRecursionLimit
          /\ agent' = [agent EXCEPT
                          !.messages = Append(@, AIMessage(NeedMoreSteps)),
                          !.goto = END,
                          !.trace = Append(@, "agent")]
       \/ \E content \in IF observation = None THEN AgentResults
                          ELSE agent_invoke(observation) :
             agent' = [agent EXCEPT !.messages = Append(@, AIMessage(content)),
                                    !.goto = END,
                                    !.trace = Append(@, "agent")]
    /\ UNCHANGED <<pc, state, super, sub, output, status, raised_by,
                   transitions, observation>>
    /\ agent_frame

\* The capability is called and what it returns is appended to the agent's
\* messages.
agent_tools ==
    /\ pc = "invoke"
    /\ agent.goto = "tools"
    /\ within_limit(agent, AgentRecursionLimit)
    /\ \E outcome \in CapabilityOutcomes :
          IF tool_run(outcome) = Raised
          THEN /\ raise(outcome, sub.team, state)
               /\ agent' = NoAgent
               /\ UNCHANGED observation
          ELSE /\ agent' = [agent EXCEPT
                               !.messages =
                                  Append(@, ToolMessage(tool_run(outcome),
                                                        Capability(agent.name))),
                               !.goto = "agent",
                               !.trace = Append(@, "tools")]
               /\ observation' = tool_run(outcome)
               /\ UNCHANGED <<pc, state, super, sub, output, status,
                              raised_by, transitions>>
    /\ agent_frame

\* The agent has run its ceiling of steps and is not done: GraphRecursionError
\* out of <agent>.invoke, which the worker node does not catch.
agent_recursion_error ==
    /\ pc = "invoke"
    /\ agent.goto \in {"agent", "tools"}
    /\ ~within_limit(agent, AgentRecursionLimit)
    /\ raise("GraphRecursionError", sub.team, state)
    /\ agent' = NoAgent
    /\ UNCHANGED observation
    /\ agent_frame

\* The agent has answered: the worker node returns its Command, which the
\* team's graph applies.
agent_return ==
    /\ pc = "invoke"
    /\ agent # NoAgent
    /\ agent.goto = END
    /\ sub_step(worker_node(agent.name, agent.messages))
    /\ agent' = [agent EXCEPT !.goto = "returned"]
    /\ UNCHANGED observation
    /\ agent_frame

NextAgent ==
    \/ agent_start
    \/ agent_model
    \/ agent_tools
    \/ agent_recursion_error
    \/ agent_return

SpecAgent == InitAgent /\ [][NextAgent]_vars

(* ------------------------------------------------------------------ *)
(* The single-agent chatbot: one graph of a chatbot node and a tools   *)
(* node, compiled with a checkpointer and streamed once per line read. *)
(* ------------------------------------------------------------------ *)

\* Lines the loop may read before "quit".
MaxChatInputs == 2

\* Rounds of tool calls a run may make: graph.stream is given no recursion
\* limit, so the library's default applies (25 there: twelve rounds and the
\* chatbot's last word).
MaxToolRounds == 2
ChatRecursionLimit == 2 * MaxToolRounds + 1

\* The agency's driver has not read anything.
AgencyIdle ==
    /\ pc = "input"
    /\ turn = 0
    /\ state = <<>>
    /\ super = NoRun
    /\ sub = NoSub
    /\ output = NoOutput
    /\ status = "idle"
    /\ raised_by = None
    /\ transitions = NoTransitions
    /\ turn_start = <<>>
    /\ recursion_limit = RecursionLimit
    /\ observation = None
    /\ replay = NoReplay
    /\ agent = NoAgent

agency == <<pc, turn, state, super, sub, output, status, raised_by,
            transitions, turn_start, recursion_limit, observation, replay, agent>>

\* Messages of the chatbot's thread.
ChatMessage(role, tool_calls) == [role |-> role, tool_calls |-> tool_calls]

\* add_edge(START, "chatbot")
chat_entry == "chatbot"

\* Mutant: the tools node ends the run.
tools_edge_end == END

\* add_edge("tools", "chatbot")
tools_edge == "chatbot"

\* Mutant: the chatbot's reply always ends the run.
tools_condition_always_ends(messages) == END

\* tools_condition with the path map {"tools": "tools", END: END}: to the tools
\* node when the last message requests a tool call, to END otherwise.
tools_condition(messages) ==
    IF Last(messages).tool_calls THEN "tools" ELSE END

InitChat ==
    /\ AgencyIdle
    /\ chat = [NoChat EXCEPT !.pc = "input"]
    /\ app = NoApp
    /\ flights = NoCall
    /\ whatsapp = NoCall

chat_frame == UNCHANGED <<agency, app, flights, whatsapp>>

\* stream_graph_updates(user_input): the input is added to the thread the
\* checkpointer holds and the graph starts at its entry.
stream_graph_updates(where, how, read) ==
    chat' = [chat EXCEPT !.pc = where,
                         !.messages = Append(@, ChatMessage("user", FALSE)),
                         !.goto = chat_entry,
                         !.trace = <<>>,
                         !.status = how,
                         !.inputs = @ + read]

\* A line other than "quit", "exit" and "q" is read.
chat_user_input ==
    /\ chat.pc = "input"
    /\ chat.inputs < MaxChatInputs
    /\ stream_graph_updates("stream", "running", 1)
    /\ chat_frame

\* "quit", "exit" or "q" is read: the loop breaks.
chat_quit ==
    /\ chat.pc = "input"
    /\ chat' = [chat EXCEPT !.pc = "exit"]
    /\ chat_frame

\* An exception `e` reaches the loop. From the try block, the handler prints
\* it, streams the graph on a canned question and breaks; from the handler's
\* own stream, nothing catches it.
chat_raise(e) ==
    IF chat.pc = "fallback"
    THEN chat' = [chat EXCEPT !.pc = "exit", !.status = e]
    ELSE stream_graph_updates("fallback", e, 0)

\* input() raises (no terminal).
chat_input_unavailable ==
    /\ chat.pc = "input"
    /\ chat_raise("EOFError")
    /\ chat_frame

\* The chatbot node runs: the model's reply, with or without a request for a
\* tool call, is appended and tools_condition routes on it.
chatbot ==
    /\ chat.pc \in {"stream", "fallback"}
    /\ chat.goto = "chatbot"
    /\ within_limit(chat, ChatRecursionLimit)
    /\ \E tool_calls \in BOOLEAN :
          LET messages == Append(chat.messages, ChatMessage("ai", tool_calls))
          IN  chat' = [chat EXCEPT !.messages = messages,
                                   !.goto = tools_condition(messages),
                                   !.trace = Append(@, "chatbot")]
    /\ chat_frame

\* The model cannot be reached: llm_with_tools.invoke raises in the chatbot.
chatbot_unavailable ==
    /\ chat.pc \in {"stream", "fallback"}
    /\ chat.goto = "chatbot"
    /\ within_limit(chat, ChatRecursionLimit)
    /\ chat_raise("OracleUnavailable")
    /\ chat_frame

\* The tools node runs the requested tool and appends what it returned (an
\* error text if it failed).
tool_node ==
    /\ chat.pc \in {"stream", "fallback"}
    /\ chat.goto = "tools"
    /\ within_limit(chat, ChatRecursionLimit)
    /\ chat' = [chat EXCEPT !.messages = Append(@, ChatMessage("tool", FALSE)),
                            !.goto = tools_edge,
                            !.trace = Append(@, "tools")]
    /\ chat_frame

\* A tool raises and the tools node lets the exception through (library
\* versions whose ToolNode only catches errors of the call's arguments).
tool_node_raises ==
    /\ chat.pc \in {"stream", "fallback"}
    /\ chat.goto = "tools"
    /\ within_limit(chat, ChatRecursionLimit)
    /\ chat_raise("ToolException")
    /\ chat_frame

\* The run has executed its ceiling of nodes and is not at END.
chat_recursion_error ==
    /\ chat.pc \in {"stream", "fallback"}
    /\ chat.goto # END
    /\ ~within_limit(chat, ChatRecursionLimit)
    /\ chat_raise("GraphRecursionError")
    /\ chat_frame

\* The run is at END: stream_graph_updates returns; the loop reads again, or
\* breaks when the handler had called it.
chat_end ==
    /\ chat.pc \in {"stream", "fallback"}
    /\ chat.goto = END
    /\ chat' = [chat EXCEPT !.pc = IF chat.pc = "stream" THEN "input" ELSE "exit",
                            !.status = "completed"]
    /\ chat_frame

NextChat ==
    \/ chat_user_input
    \/ chat_quit
    \/ chat_input_unavailable
    \/ chatbot
    \/ chatbot_unavailable
    \/ tool_node
    \/ tool_node_raises
    \/ chat_recursion_error
    \/ chat_end

SpecChat == InitChat /\ [][NextChat]_vars

(* ------------------------------------------------------------------ *)
(* The chat page: a script run again from the top at every submission  *)
(* of its form, on a session state that outlives the runs.             *)
(* ------------------------------------------------------------------ *)

\* Submissions of the form in one session.
MaxSubmissions == 3

\* The longest text typed.
MaxInputLen == 4

\* How many canned responses the backend has.
dummy_responses == 4

\* What may be in the text field when the form is submitted: nothing, or a
\* text of some length.
Texts == {[i \in 1..n |-> "c"] : n \in 0..MaxInputLen}

\* backend.process_user_input: the index of the canned response returned.
process_user_input(text_) == Len(text_) % dummy_responses

InitApp ==
    /\ AgencyIdle
    /\ chat = NoChat
    /\ app = NoApp
    /\ flights = NoCall
    /\ whatsapp = NoCall

app_frame == UNCHANGED <<agency, chat, flights, whatsapp>>

\* The script runs on a submission of `text_`, the session's messages
\* standing at `messages`: `if submitted and text_:` appends the user's
\* message and calls the backend.
script_run(messages, text_) ==
    app' = [messages |-> IF text_ # <<>>
                         THEN Append(messages, [role |-> "user", text |-> text_])
                         ELSE messages,
            submitted |-> text_,
            running |-> text_,
            runs |-> app.runs + 1]

\* The form is submitted while no script run is in progress.
app_submit ==
    /\ app.running = <<>>
    /\ app.runs < MaxSubmissions
    /\ \E text_ \in Texts : script_run(app.messages, text_)
    /\ app_frame

\* The backend has returned: the bot's message is appended and st.rerun()
\* draws the page again.
app_respond ==
    /\ app.running # <<>>
    /\ app' = [app EXCEPT
                  !.messages = Append(@, [role |-> "bot",
                                          text |-> process_user_input(app.running)]),
                  !.running = <<>>]
    /\ app_frame

\* The form is submitted while the script is waiting for the backend: the
\* running script is stopped where it next reports to the page (leaving the
\* spinner), before the bot's message is appended, and the script runs again
\* on the new submission.
app_submit_while_running ==
    /\ app.running # <<>>
    /\ app.runs < MaxSubmissions
    /\ \E text_ \in Texts : script_run(app.messages, text_)
    /\ app_frame

NextApp ==
    \/ app_submit
    \/ app_respond
    \/ app_submit_while_running

SpecApp == InitApp /\ [][NextApp]_vars

(* ------------------------------------------------------------------ *)
(* One call of FlightSearchTool._run: the arguments it is given, the   *)
(* request it sends and what it returns.                               *)
(* ------------------------------------------------------------------ *)

\* The kinds of trip: 1 round trip, 2 one way, 3 multi-city.
MaxType == 3

\* An optional string argument: absent, empty or given.
OptionalStr(v) == {None, "", v}

\* Python's truth of an optional string.
Truthy(v) == v \notin {None, ""}

\* The arguments a call may be given (those left out keep their defaults), and
\* SERPAPI_API_KEY of the environment.
FlightArgs ==
    [api_key : {None, "k"},
     env_key : {"", "k"},
     departure_id : {"CDG"},
     arrival_id : {None, "AUS"},
     outbound_date : {None, "d1"},
     return_date : OptionalStr("d2"),
     type : 1..MaxType,
     outbound_times : {None},
     return_times : OptionalStr("t2"),
     deep_search : BOOLEAN]

\* `api_key or os.getenv("SERPAPI_API_KEY")`
serpapi_key(args) == IF Truthy(args.api_key) THEN args.api_key ELSE args.env_key

\* Mutant: the return leg is forwarded whatever the type.
return_leg_any_type(args) == TRUE

\* `and type == 1`: the return leg belongs to a round trip.
return_leg(args) == args.type = 1

\* The keys of params that are always set.
BaseParams == {"engine", "api_key", "type", "travel_class", "adults",
               "children", "infants_in_seat", "infants_on_lap", "stops"}

\* The keys of params set on a condition.
OptionalParams(args) ==
    {k \in {"outbound_date", "departure_id", "arrival_id", "outbound_times"} :
        Truthy(args[k])}
    \cup {k \in {"return_date", "return_times"} :
             Truthy(args[k]) /\ return_leg(args)}
    \cup (IF args.deep_search THEN {"deep_search"} ELSE {})

\* params as _run builds it.
flight_params(args) ==
    [k \in BaseParams \cup OptionalParams(args) |->
        CASE k = "engine" -> "google_flights"
          [] k = "api_key" -> serpapi_key(args)
          [] k = "type" -> args.type
          [] k = "travel_class" -> 1
          [] k = "adults" -> 1
          [] k \in {"children", "infants_in_seat", "infants_on_lap", "stops"} -> 0
          [] k = "deep_search" -> "true"
          [] OTHER -> args[k]]

InitFlights ==
    /\ AgencyIdle
    /\ chat = NoChat
    /\ app = NoApp
    /\ flights = NoCall
    /\ whatsapp = NoCall

flights_frame == UNCHANGED <<agency, chat, app, whatsapp>>

\* The tool is called.
flight_call ==
    /\ flights.stage = "idle"
    /\ \E args \in FlightArgs :
          flights' = [flights EXCEPT !.stage = "called", !.args = args]
    /\ flights_frame

\* No key: _run returns an error text and sends nothing.
flight_no_key ==
    /\ flights.stage = "called"
    /\ ~Truthy(serpapi_key(flights.args))
    /\ flights' = [flights EXCEPT
                      !.stage = "done",
                      !.out = "Error: No SerpApi key provided (SERPAPI_API_KEY)."]
    /\ flights_frame

\* _run builds params, sends the request and returns the response's text, or
\* an error text if the request failed.
flight_run ==
    /\ flights.stage = "called"
    /\ Truthy(serpapi_key(flights.args))
    /\ \E outcome \in CapabilityOutcomes :
          flights' = [flights EXCEPT !.stage = "done",
                                     !.request = flight_params(flights.args),
                                     !.out = tool_run(outcome)]
    /\ flights_frame

NextFlights ==
    \/ flight_call
    \/ flight_no_key
    \/ flight_run

SpecFlights == InitFlights /\ [][NextFlights]_vars

(* ------------------------------------------------------------------ *)
(* One call of WhatsAppTool._run: the arguments it is given, the       *)
(* messages it sends and what it returns.                              *)
(* ------------------------------------------------------------------ *)

\* The arguments a call may be given, and BROTHER_NUMBER of the environment
\* as the class read it.
WhatsAppArgs ==
    [method : {"send_msg_to_brother", "send_msg_to_number", "send_msg_to_all"},
     content : {"", "c", "cc"},
     phone_number : {None, "", "+33612345678", "0612345678"},
     brother_number : {None, "+34612345678"}]

\* How pywhatkit.sendwhatmsg_instantly may go for a number: it sends, or it
\* raises; without a number it can only raise.
SendOutcomes(number) ==
    IF number = None THEN {"Exception"} ELSE {"ok", "Exception"}

\* The texts _run returns instead of sending.
PhoneNumberRequired ==
    "Error: phone_number is required for method='send_msg_to_number'."
UnknownMethod ==
    "Error: Unknown method. Use 'send_msg_to_brother' or 'send_msg_to_number'."

\* Mutant: a failure of the send leaves _run as an exception.
whatsapp_except_reraises(e) == Raised

\* `except Exception as e`: the text returned for a failed send.
whatsapp_except(e) == "Error while sending WhatsApp message"

\* Mutant: an unknown method is sent to the brother's number.
recipient_defaults_to_brother(args) ==
    IF args.method = "send_msg_to_number" /\ Truthy(args.phone_number)
    THEN <<args.phone_number>>
    ELSE IF args.method = "send_msg_to_number" THEN <<>>
    ELSE <<args.brother_number>>

\* The number _run sends to, if it sends at all.
recipient(args) ==
    IF args.method = "send_msg_to_brother" THEN <<args.brother_number>>
    ELSE IF args.method = "send_msg_to_number" /\ Truthy(args.phone_number)
    THEN <<args.phone_number>>
    ELSE <<>>

InitWhatsApp ==
    /\ AgencyIdle
    /\ chat = NoChat
    /\ app = NoApp
    /\ flights = NoCall
    /\ whatsapp = NoCall

whatsapp_frame == UNCHANGED <<agency, chat, app, flights>>

\* The tool is called.
whatsapp_call ==
    /\ whatsapp.stage = "idle"
    /\ \E args \in WhatsAppArgs :
          whatsapp' = [whatsapp EXCEPT !.stage = "called", !.args = args]
    /\ whatsapp_frame

\* send_msg_to_brother / send_msg_to_number: pywhatkit is asked to send, and
\* _run returns the confirmation or, the send having raised, the handler's
\* text.
whatsapp_send ==
    /\ whatsapp.stage = "called"
    /\ recipient(whatsapp.args) # <<>>
    /\ LET number == recipient(whatsapp.args)[1]
       IN  \E outcome \in SendOutcomes(number) :
              whatsapp' =
                 [whatsapp EXCEPT
                    !.stage = "done",
                    !.request = IF outcome = "ok"
                                THEN <<[to |-> number,
                                        content |-> whatsapp.args.content]>>
                                ELSE <<>>,
                    !.out = IF outcome = "ok"
                            THEN "Message envoye"
                            ELSE whatsapp_except(outcome)]
    /\ whatsapp_frame

\* No number to send to: _run returns an error text.
whatsapp_refuse ==
    /\ whatsapp.stage = "called"
    /\ recipient(whatsapp.args) = <<>>
    /\ whatsapp' = [whatsapp EXCEPT
                       !.stage = "done",
                       !.out = IF whatsapp.args.method = "send_msg_to_number"
                               THEN PhoneNumberRequired
                               ELSE UnknownMethod]
    /\ whatsapp_frame

NextWhatsApp ==
    \/ whatsapp_call
    \/ whatsapp_send
    \/ whatsapp_refuse

SpecWhatsApp == InitWhatsApp /\ [][NextWhatsApp]_vars

(* ------------------------------------------------------------------ *)
(* Vocabulary of the properties.                                       *)
(* ------------------------------------------------------------------ *)

\* What a supervisor of `members` may route to once FINISH has become END.
ValidGoto(members) == members \cup {END}

\* The turn was ended by an exception.
Failed == status \notin {"idle", "running", "completed"}

\* The authors of the messages a turn's input and nodes put in the session log.
TurnAuthors == {"user"} \cup emoji_dict

\* The nested graph's supervisor has just run (as the step's primed state shows).
SubSupervisorRan ==
    /\ pc = "invoke" /\ pc' = "invoke"
    /\ Len(sub'.trace) = Len(sub.trace) + 1
    /\ Last(sub'.trace) = Supervisor

SameChannels(g, h) ==
    /\ g.next = h.next
    /\ g.instructions = h.instructions
    /\ g.messages = h.messages

(* ------------------------------------------------------------------ *)
(* C1. A routing decision whose next is neither a member of the team   *)
(* nor FINISH is rejected before it is applied: the team's next,       *)
(* instructions and message log stay as they were and no node is       *)
(* routed to. (Stated of the root graph, which applies the streamed    *)
(* Command, and of a nested graph, whose supervisor step applies it.)  *)
(* ------------------------------------------------------------------ *)
C1_InvalidNextRejected ==
    [][ /\ ( /\ pc = "apply"
             /\ output.node = Supervisor
             /\ output.next \notin ValidGoto(RootMembers) )
           => /\ SameChannels(super', super)
              /\ tasks(super', RootNodes) = {}
        /\ ( /\ SubSupervisorRan
             /\ sub'.next \notin ValidGoto(TeamMembers(sub.team)) )
           => /\ SameChannels(sub', sub)
              /\ tasks(sub', TeamNodes(sub.team)) = {} ]_vars

(* ------------------------------------------------------------------ *)
(* C2. As claimed: no team, root or nested, performs more node         *)
(* executions in one turn than its step ceiling, however often it is   *)
(* delegated to.                                                       *)
(* ------------------------------------------------------------------ *)
C2_TeamWithinCeilingPerTurn ==
    /\ Len(super.trace) <= recursion_limit
    /\ \A team \in RootMembers : transitions[team] <= SubRecursionLimit

\* C2, amended: no run of a graph (the root's one run of the turn, a nested
\* graph's run of one delegation) executes more nodes than its step ceiling.
C2_RunWithinCeiling ==
    /\ Len(super.trace) <= recursion_limit
    /\ Len(sub.trace) <= SubRecursionLimit

\* Both runs stand at their ceiling, in the root's second delegation.
C2_Witness ==
    /\ pc = "invoke"
    /\ Len(super.trace) = recursion_limit
    /\ Len(sub.trace) = SubRecursionLimit
    /\ transitions[sub.team] > SubRecursionLimit

(* ------------------------------------------------------------------ *)
(* C3. A delegation that reaches the nested graph's END hands exactly  *)
(* one message up: the team node's Command carries one message, the    *)
(* driver adds one message to the session log for it and the root      *)
(* graph adds one message to its own log, whatever the nested graph    *)
(* did.                                                                *)
(* ------------------------------------------------------------------ *)
C3_OneDigestPerDelegation ==
    [][ /\ (pc = "invoke" /\ pc' = "output")
           => /\ Len(output'.digest) = 1
              /\ output'.digest[1].name = sub.team
              /\ output'.answer = Unset
              /\ super'.messages = super.messages
              /\ state' = state
        /\ (pc = "output" /\ output.node \in RootMembers)
           => /\ state' = Append(state, output.digest[1])
              /\ pc' = "apply"
        /\ (pc = "apply" /\ output.node \in RootMembers)
           => /\ Len(super'.messages) = Len(super.messages) + 1
              /\ Last(super'.messages).name = output.node
              /\ pc' = "stream" ]_vars

\* A delegation has returned after its nested graph ran three nodes.
C3_Witness ==
    /\ pc = "apply"
    /\ output.node = "trip_planner"
    /\ transitions["trip_planner"] = 3
    /\ Len(super.trace) = 2

(* ------------------------------------------------------------------ *)
(* C4. Scenario B: a turn in which the oracle has answered             *)
(* next = "unknown_worker" ends aborted by an exception raised to the  *)
(* caller; it does not complete as a normal turn and runs no worker    *)
(* after that decision.                                                *)
(* ------------------------------------------------------------------ *)
C4_UnknownWorkerAborts ==
    super.next = UnknownWorker
        => /\ status # "completed"
           /\ Last(super.trace) = Supervisor

(* ------------------------------------------------------------------ *)
(* C5. Scenario D (step ceiling 3): the root graph runs its first      *)
(* three nodes; GraphRecursionError is raised exactly when a fourth    *)
(* is due, not before the third has run, and no fourth node runs.      *)
(* ------------------------------------------------------------------ *)
C5_AbortAtFourthTransition ==
    [][ /\ Len(super'.trace) <= 3
        /\ (status = "running" /\ status' = "GraphRecursionError"
                /\ raised_by' = "super")
           => (pc = "stream" /\ Len(super.trace) = 3)
        /\ (pc = "stream" /\ Len(super.trace) = 3
                /\ tasks(super, RootNodes) # {})
           => (status' = "GraphRecursionError" /\ raised_by' = "super"
                 /\ super' = super) ]_vars

\* The supervisor has routed to the same worker twice; the worker's second
\* run was the fourth transition, and the turn was aborted on it.
C5_Witness ==
    /\ status = "GraphRecursionError"
    /\ raised_by = "super"
    /\ super.trace = <<Supervisor, "trip_planner", Supervisor>>
    /\ super.goto = "trip_planner"

(* ------------------------------------------------------------------ *)
(* C6. After a turn aborted on a ceiling breach the session log is,    *)
(* in order: the log at turn start, the turn's user input, and what    *)
(* the driver had added for every message the root graph's nodes       *)
(* committed before the abort (a supervisor's non-empty answer under   *)
(* the author "supervisor", a team's digest as it is).                 *)
(* ------------------------------------------------------------------ *)
Visible(m) == ~(m.name = None /\ m.content = "")
AsSurfaced(m) == IF m.name = None THEN HumanMessage(m.content, Supervisor) ELSE m
Surfaced(messages) ==
    LET kept == SelectSeq(messages, Visible)
    IN  [i \in 1..Len(kept) |-> AsSurfaced(kept[i])]
SinceTurnStart(messages) ==
    SubSeq(messages, Len(turn_start) + 2, Len(messages))

C6_NothingRolledBack ==
    status = "GraphRecursionError"
        => /\ Len(state) > Len(turn_start)
           /\ SubSeq(state, 1, Len(turn_start)) = turn_start
           /\ state[Len(turn_start) + 1].name = "user"
           /\ SinceTurnStart(state) = Surfaced(SinceTurnStart(super.messages))

\* The root graph was aborted at its ceiling after two digests were committed.
C6_Witness ==
    /\ status = "GraphRecursionError"
    /\ raised_by = "super"
    /\ Len(state) >= Len(turn_start) + 3

(* ------------------------------------------------------------------ *)
(* C7. A turn ended by an exception leaves the session log ending      *)
(* with a failure notice: a message that is neither the user's nor a   *)
(* node's.                                                             *)
(* ------------------------------------------------------------------ *)
C7_FailedTurnEndsWithNotice ==
    Failed => /\ Len(state) > 0
              /\ Last(state).name \notin TurnAuthors

(* ------------------------------------------------------------------ *)
(* C8. A worker node, capability-bound or team-bound, hands control    *)
(* to its team's supervisor: its Command routes to "supervisor", and   *)
(* in every run the node after a worker is the supervisor.             *)
(* ------------------------------------------------------------------ *)
WorkerHandsBack(g, members, at_tick) ==
    /\ \A i \in 1..(Len(g.trace) - 1) :
          g.trace[i] \in members => g.trace[i + 1] = Supervisor
    /\ (at_tick /\ Len(g.trace) > 0 /\ Last(g.trace) \in members)
          => tasks(g, {Supervisor} \cup members) = {Supervisor}

C8_WorkerReturnsToSupervisor ==
    /\ WorkerHandsBack(super, RootMembers, pc = "stream")
    /\ pc = "invoke" => WorkerHandsBack(sub, TeamMembers(sub.team), TRUE)
    /\ (pc \in {"output", "apply"} /\ output.node # Supervisor)
          => output.goto = Supervisor

\* A team-bound worker and, inside it, a capability-bound worker have each
\* been followed by their supervisor.
C8_Witness ==
    /\ pc = "invoke"
    /\ super.trace = <<Supervisor, "research_team", Supervisor, "trip_planner">>
    /\ sub.trace = <<Supervisor, "flight", Supervisor>>

(* ------------------------------------------------------------------ *)
(* C9. A run starts with the supervisor; the node run after a          *)
(* supervisor decision is the worker that decision named; once the     *)
(* decision is FINISH the run is at END and no node runs after it.     *)
(* ------------------------------------------------------------------ *)
SupervisorRoutes(g, members) ==
    /\ Len(g.trace) > 0 => g.trace[1] = Supervisor
    /\ \A i \in 1..(Len(g.trace) - 1) :
          g.trace[i] = Supervisor => g.trace[i + 1] \in members
    /\ (Len(g.trace) > 0 /\ Last(g.trace) \in members)
          => Last(g.trace) = g.next
    /\ g.next = END
          => /\ Last(g.trace) = Supervisor
             /\ tasks(g, {Supervisor} \cup members) = {}
    /\ (g.next \in members /\ Last(g.trace) = Supervisor)
          => tasks(g, {Supervisor} \cup members) = {g.next}

C9_SupervisorDecidesNextNode ==
    /\ (pc \in {"stream", "invoke"} \/ status = "completed")
          => SupervisorRoutes(super, RootMembers)
    /\ pc = "invoke" => SupervisorRoutes(sub, TeamMembers(sub.team))

\* A turn completed by FINISH after one delegation.
C9_Witness ==
    /\ status = "completed"
    /\ super.next = END
    /\ super.trace = <<Supervisor, "accomodation_agent", Supervisor>>

(* ------------------------------------------------------------------ *)
(* C10. A nested team's FINISH ends that team only: while the nested   *)
(* graph is at END the parent's turn is still running, the team node's *)
(* Command carries one digest and no routing fields, and it routes the *)
(* parent to its supervisor, never to END.                             *)
(* ------------------------------------------------------------------ *)
C10_NestedFinishStaysNested ==
    /\ (pc = "invoke" /\ sub.next = END)
          => /\ status = "running"
             /\ super.next = sub.team
    /\ (pc \in {"output", "apply"} /\ output.node \in RootMembers)
          => /\ status = "running"
             /\ output.goto = Supervisor
             /\ output.next = Unset
             /\ output.instructions = Unset
             /\ Len(output.digest) = 1
    /\ (pc = "stream" /\ Len(super.trace) > 0
            /\ Last(super.trace) \in RootMembers)
          => /\ super.next = Last(super.trace)
             /\ tasks(super, RootNodes) = {Supervisor}

\* A nested team has decided FINISH after its worker ran; the parent runs on.
C10_Witness ==
    /\ pc = "invoke"
    /\ sub.next = END
    /\ sub.trace = <<Supervisor, "hotel", Supervisor>>

(* ------------------------------------------------------------------ *)
(* C11. The message a team node hands to its parent is authored by the *)
(* team's declared name and has the content of the nested log's last   *)
(* message at the nested graph's END; the parent's log takes it as it  *)
(* is. No message of the parent's log is authored by a nested worker,  *)
(* and an unnamed message enters it only as the answer of the parent's *)
(* own supervisor.                                                     *)
(* ------------------------------------------------------------------ *)
ChildWorkers == UNION {TeamMembers(team) : team \in RootMembers}
Authors(messages) == {messages[i].name : i \in 1..Len(messages)}

C11_DigestReattributed ==
    [][ /\ (pc = "invoke" /\ pc' = "output")
           => output'.digest =
                 <<HumanMessage(Last(sub.messages).content, sub.team)>>
        /\ (pc = "apply" /\ pc' = "stream" /\ output.node \in RootMembers)
           => super'.messages = Append(super.messages, output.digest[1])
        /\ Authors(super'.messages) \cap ChildWorkers = {}
        /\ Authors(state') \cap (ChildWorkers \cup {None}) = {}
        /\ (turn' = turn /\ Len(super'.messages) > Len(super.messages)
                /\ Last(super'.messages).name = None)
           => /\ pc = "apply"
              /\ output.node = Supervisor
              /\ Last(super'.messages).content = output.answer ]_vars

\* A research_team delegation returns: its nested log held messages of its
\* supervisor and of one of its workers, the last being the supervisor's answer.
C11_Witness ==
    /\ pc = "output"
    /\ output.node = "research_team"
    /\ output.digest = <<HumanMessage("a", "research_team")>>
    /\ transitions["research_team"] = 3

(* ------------------------------------------------------------------ *)
(* C12. The message a nested graph is started on has as content the   *)
(* parent supervisor's instructions when these are not empty, and      *)
(* otherwise the content of the latest message of the parent's log     *)
(* that the user wrote (not that of a digest or of a supervisor's      *)
(* answer that came after it).                                         *)
(* ------------------------------------------------------------------ *)
LatestFrom(messages, author) ==
    LET from == {i \in 1..Len(messages) : messages[i].name = author}
    IN  messages[CHOOSE i \in from : \A j \in from : j <= i]

C12_SeedIsInstructionsOrUserMessage ==
    (pc = "invoke" /\ Len(sub.trace) = 0)
        => sub.messages[1].content =
              IF Strip(super.instructions) # ""
              THEN Strip(super.instructions)
              ELSE LatestFrom(super.messages, "user").content

(* ------------------------------------------------------------------ *)
(* C13. A delegation starts its nested graph on a new State: the log   *)
(* holds the seed message alone, next and instructions are unwritten   *)
(* and no node has run, whatever the parent's log holds and whatever   *)
(* an earlier delegation to the same team left; once the team node     *)
(* has returned or failed, no nested state remains.                    *)
(* ------------------------------------------------------------------ *)
C13_FreshChildPerDelegation ==
    [][ /\ (pc = "stream" /\ pc' = "invoke")
           => /\ sub = NoSub
              /\ Len(sub'.messages) = 1
              /\ sub'.messages[1].name = sub'.team
              /\ sub'.next = Unset
              /\ sub'.instructions = Unset
              /\ sub'.trace = <<>>
        /\ pc' # "invoke" => sub' = NoSub ]_vars

\* trip_planner is delegated to for the second time in a turn, its first
\* nested run having executed three nodes.
C13_Witness ==
    /\ pc = "invoke"
    /\ super.trace = <<Supervisor, "trip_planner", Supervisor, "trip_planner">>
    /\ Len(super.messages) >= 4
    /\ transitions["trip_planner"] = 3
    /\ sub.trace = <<>>
    /\ Len(sub.messages) = 1

(* ------------------------------------------------------------------ *)
(* C14. As claimed: when the capability call of a capability-bound     *)
(* worker fails, the worker still appends one message under its name,  *)
(* whose content is the description of the error, control returns to   *)
(* the team's supervisor and the turn goes on.                         *)
(* ------------------------------------------------------------------ *)
CapabilityError == tool_run("RequestException")

\* A worker of the nested graph has just run and its capability call failed.
WorkerRanOnFailure ==
    /\ pc = "invoke"
    /\ Len(sub'.trace) = Len(sub.trace) + 1
    /\ Last(sub'.trace) \in ChildWorkers
    /\ observation' = CapabilityError

WorkerHandsErrorBack ==
    /\ status' = "running"
    /\ pc' = "invoke"
    /\ Len(sub'.messages) = Len(sub.messages) + 1
    /\ Last(sub'.messages).name = Last(sub'.trace)
    /\ tasks(sub', TeamNodes(sub.team)) = {Supervisor}

C16_OneActiveNode ==
    [][ /\ Len(super'.trace) + Len(sub'.trace)
               <= Len(super.trace) + Len(sub.trace) + 1
        /\ Len(super'.trace) > Len(super.trace)
           => /\ pc = "stream"
              /\ output = NoOutput
              /\ sub = NoSub
        /\ Len(sub'.trace) > Len(sub.trace)
           => /\ pc = "invoke"
              /\ Last(super.trace) = sub.team
              /\ state' = state
        /\ pc = "invoke" => SameChannels(super', super)
        /\ (turn' = turn /\ ~SameChannels(super', super))
           => /\ pc = "apply"
              /\ output.node = Last(super.trace)
              /\ super' = apply_writes(super, output)
        /\ (pc = "invoke" /\ pc' = "invoke" /\ ~SameChannels(sub', sub))
           => /\ Len(sub'.trace) = Len(sub.trace) + 1
              /\ sub'.team = sub.team
        /\ pc = "output" => (SameChannels(super', super) /\ sub' = sub)
        /\ state' # state => pc \in {"input", "output"} ]_vars

\* The research_team node is running: inside it the nested supervisor and then
\* the meteo worker have run.
C16_Witness ==
    /\ pc = "invoke"
    /\ super.trace = <<Supervisor, "research_team">>
    /\ sub.trace = <<Supervisor, "meteo">>
    /\ Len(sub.messages) = 3

(* ------------------------------------------------------------------ *)
(* C17. A supervisor's decision adds a message to its team's log if    *)
(* and only if the decision's answer is populated: with an answer that *)
(* is absent (None) or empty the decision is applied and the log stays *)
(* as it was; with a populated answer the log gains that one message.  *)
(* ------------------------------------------------------------------ *)
Populated(answer) == answer \notin {None, Unset, ""}

C17_AnswerAppendedIffPopulated ==
    [][ /\ (pc = "apply" /\ output.node = Supervisor)
           => /\ pc' = "stream"
              /\ super'.messages =
                    IF Populated(output.answer)
                    THEN Append(super.messages,
                                HumanMessage(output.answer, None))
                    ELSE super.messages
        /\ (SubSupervisorRan /\ sub'.messages # sub.messages)
           => /\ Len(sub'.messages) = Len(sub.messages) + 1
              /\ Populated(Last(sub'.messages).content) ]_vars

Fare == tool_run("ok")

C19_ScenarioALog ==
    [][ /\ ( /\ pc = "invoke" /\ pc' = "output"
             /\ sub.team = "trip_planner"
             /\ sub.trace = <<Supervisor, "flight", Supervisor>>
             /\ sub.next = END
             /\ observation = Fare
             /\ sub.messages[3] = HumanMessage(Fare, "flight") )
           => output'.digest = <<HumanMessage(Fare, "trip_planner")>>
        /\ ( /\ status = "running" /\ status' = "completed"
             /\ turn = 1
             /\ super.trace = <<Supervisor, "trip_planner", Supervisor>>
             /\ super.next = END )
           => /\ Len(state') = 2
              /\ state'[1] = HumanMessage("u", "user")
              /\ state'[2].name = "trip_planner" ]_vars

(* ------------------------------------------------------------------ *)
(* C20. The session log only grows: every step leaves the log it      *)
(* found as a prefix of the log it leaves. A turn starts by appending  *)
(* the user's input to the log the earlier turns left, and the root    *)
(* graph is run on exactly that log; when the turn ends, at END or by  *)
(* an exception, the log still begins with the turn-start log followed *)
(* by that input.                                                      *)
(* ------------------------------------------------------------------ *)
IsPrefix(p, q) == Len(p) <= Len(q) /\ SubSeq(q, 1, Len(p)) = p

C20_SessionLogAppendOnly ==
    [][ /\ IsPrefix(state, state')
        /\ (pc = "input" /\ pc' = "stream")
           => /\ Len(state') = Len(state) + 1
              /\ Last(state').name = "user"
              /\ super'.messages = state'
              /\ turn_start' = state
        /\ (status = "running" /\ status' # "running")
           => /\ IsPrefix(turn_start, state')
              /\ Len(state') > Len(turn_start)
              /\ state'[Len(turn_start) + 1].name = "user" ]_vars

\* A second turn has ended after adding its input and two further messages
\* to the log the first turn left.
C20_Witness ==
    /\ pc = "input"
    /\ turn = 2
    /\ status \in {"completed", "GraphRecursionError"}
    /\ Len(turn_start) = 1
    /\ Len(state) = 4

(* ------------------------------------------------------------------ *)
(* C21. When a nested team fails, by a routing decision that names no  *)
(* member of the team, by a breach of its ceiling or by a failure of   *)
(* its oracle, the exception reaches the caller of the team node (the  *)
(* turn ends on it, raised by that team) and the parent's log and the  *)
(* session log are as they were before the delegation: no message of   *)
(* the nested run and no digest is added.                              *)
(* ------------------------------------------------------------------ *)
NestedTeamFails ==
    /\ pc = "invoke"
    /\ \/ sub.next \notin (ValidGoto(TeamMembers(sub.team)) \cup {Unset})
       \/ /\ Len(sub.trace) >= SubRecursionLimit
          /\ tasks(sub, TeamNodes(sub.team)) # {}
       \/ status' = "OracleUnavailable"

C21_NestedFailureLeavesParentIntact ==
    [][ NestedTeamFails
           => /\ status' \notin {"running", "completed"}
              /\ raised_by' = sub.team
              /\ pc' = "input"
              /\ output' = NoOutput
              /\ state' = state
              /\ SameChannels(super', super) ]_vars

(* ------------------------------------------------------------------ *)
(* C22. When the decision oracle cannot be reached, the driver makes   *)
(* the failed call again before it gives the turn up. Every oracle     *)
(* call of the program is attempted once, so each failure is the first *)
(* failure of its call: as claimed, no such failure ends the turn.     *)
(* ------------------------------------------------------------------ *)
C22_OracleFailureIsRetried ==
    [][ ~(status = "running" /\ status' = "OracleUnavailable") ]_vars

(* ------------------------------------------------------------------ *)
(* C23. An interrupt ends a turn only between two node executions:     *)
(* when KeyboardInterrupt ends the loop no node is running (no team    *)
(* node is inside its nested graph), and the session log is the one    *)
(* the last completed step left.                                       *)
(* ------------------------------------------------------------------ *)
C23_CancelOnlyBetweenNodes ==
    [][ status' = "KeyboardInterrupt"
           => /\ pc # "invoke"
              /\ sub = NoSub
              /\ state' = state ]_vars

(* ------------------------------------------------------------------ *)
(* C24. Applying a supervisor's decision sets the team's instructions  *)
(* to those of that decision, empty ones included, whatever they were  *)
(* before. A team node runs straight after the decision that named it, *)
(* so the message it seeds its nested graph with is built from that    *)
(* decision's instructions (or, these being empty, from the last       *)
(* message of the log), never from instructions of an earlier one.     *)
(* ------------------------------------------------------------------ *)
C24_InstructionsOverwritten ==
    [][ /\ (pc = "apply" /\ pc' = "stream" /\ output.node = Supervisor)
           => /\ super'.instructions = output.instructions
              /\ super'.next = output.next
        /\ (pc = "stream" /\ pc' = "invoke")
           => /\ Last(super.trace) = Supervisor
              /\ super.next = sub'.team
              /\ sub'.messages[1].content =
                    IF Strip(super.instructions) # ""
                    THEN Strip(super.instructions)
                    ELSE Last(super.messages).content ]_vars

\* research_team is delegated to for the second time in a turn, on a decision
\* with empty instructions: it is seeded with the last message of the log.
C24_Witness ==
    /\ pc = "invoke"
    /\ super.trace = <<Supervisor, "research_team", Supervisor, "research_team">>
    /\ super.instructions = ""
    /\ sub.trace = <<>>
    /\ sub.messages = <<HumanMessage("a", "research_team")>>

(* ------------------------------------------------------------------ *)
(* C25. An execution of a capability-bound worker that completes adds  *)
(* exactly one message to its team's log, carrying the content of its  *)
(* agent's last message under the worker's declared name, whether the  *)
(* agent's model called the capability never, once or several times;   *)
(* while the agent runs, the team's log does not change, and the agent *)
(* never runs more steps than its ceiling.                             *)
(* ------------------------------------------------------------------ *)
C25_OneMessagePerExecution ==
    [][ /\ Len(agent.trace) <= AgentRecursionLimit
        /\ agent'.goto # "returned" => sub' = sub \/ sub' = NoSub
        /\ (agent.goto = END /\ agent'.goto = "returned")
           => /\ agent.name = sub.goto
              /\ agent.name \in TeamMembers(sub.team)
              /\ sub'.messages =
                    Append(sub.messages,
                           HumanMessage(Last(agent.messages).content,
                                        agent.name))
              /\ sub'.trace = Append(sub.trace, agent.name) ]_vars

\* The flight worker has returned after its agent called the capability twice:
\* its team's log holds the seed, the supervisor's answer and one message of
\* the worker.
C25_Witness ==
    /\ pc = "invoke"
    /\ status = "running"
    /\ agent.goto = "returned"
    /\ agent.trace = <<"agent", "tools", "agent", "tools", "agent">>
    /\ Len(agent.messages) = 7
    /\ sub.team = "trip_planner"
    /\ sub.trace = <<Supervisor, "flight">>
    /\ transitions["trip_planner"] = 2
    /\ sub.messages = <<HumanMessage("i", "trip_planner"),
                        HumanMessage("a", None),
                        HumanMessage("r", "flight")>>

(* ------------------------------------------------------------------ *)
(* C26. When a capability-bound worker's agent begins, the instruction *)
(* its team's supervisor has just issued is among the messages the     *)
(* agent is given to act on.                                           *)
(* ------------------------------------------------------------------ *)
C26_WorkerActsOnInstructions ==
    (agent.goto = "agent" /\ agent.trace = <<>> /\ sub.instructions # None)
        => \E i \in 1..Len(agent.messages) :
              agent.messages[i].content = sub.instructions

(* ------------------------------------------------------------------ *)
(* C27. When a node of the root graph begins, the turn's user input is *)
(* in the session log, no streamed update is waiting for the driver,   *)
(* and the session log holds, after the user input, every message the  *)
(* root graph's earlier steps of the turn have produced, as the driver *)
(* surfaces them. The driver handles an update by appending what it    *)
(* surfaces of it, before the root graph applies it and goes on.       *)
(* ------------------------------------------------------------------ *)
C27_SurfacedBeforeNextStep ==
    [][ /\ (pc = "stream" /\ Len(super'.trace) = Len(super.trace) + 1)
           => /\ output = NoOutput
              /\ Len(state) > Len(turn_start)
              /\ state[Len(turn_start) + 1].name = "user"
              /\ SinceTurnStart(state) = Surfaced(SinceTurnStart(super.messages))
        /\ (pc = "output" /\ pc' = "apply")
           => /\ state' = state \o Surfaced(add_messages(<<>>, output))
              /\ super' = super
        /\ (pc = "apply" /\ pc' = "stream")
           => /\ state' = state
              /\ super'.trace = super.trace ]_vars

\* The root supervisor has run for the second time in a turn: its answer of the
\* first time and the digest of trip_planner are already in the session log.
C27_Witness ==
    /\ pc = "output"
    /\ output.node = Supervisor
    /\ super.trace = <<Supervisor, "trip_planner", Supervisor>>
    /\ state = <<HumanMessage("u", "user"),
                 HumanMessage("a", Supervisor),
                 HumanMessage("a", "trip_planner")>>

(* ------------------------------------------------------------------ *)
(* C28. The driver handles the update of a root supervisor that has    *)
(* decided FINISH without raising, whatever the decision's             *)
(* instructions and answer are, and the turn goes on to its end.       *)
(* ------------------------------------------------------------------ *)
C28_FinishHandledWithoutError ==
    [][ (pc = "output" /\ output.node = Supervisor /\ output.goto = END)
           => /\ status' = "running"
              /\ pc' = "apply" ]_vars

(* ------------------------------------------------------------------ *)
(* C29. A nested team whose supervisor decides FINISH at once, with an *)
(* empty answer, hands its parent a digest whose content is the seed   *)
(* instruction, under the team's name.                                 *)
(* ------------------------------------------------------------------ *)
C29_EmptyRunDigestIsSeed ==
    [][ (/\ pc = "invoke" /\ pc' = "output"
         /\ sub.trace = <<Supervisor>>
         /\ sub.goto = END
         /\ Last(sub.messages).content = "")
           => output'.digest =
                 <<HumanMessage(local_state(sub.team, super).messages[1].content,
                                sub.team)>> ]_vars

(* ------------------------------------------------------------------ *)
(* C30. When a turn has completed, the session log is the root graph's *)
(* own log of that turn: the same messages under the same authors in   *)
(* the same order.                                                     *)
(* ------------------------------------------------------------------ *)
C30_SessionLogIsGraphLog ==
    (pc = "input" /\ status = "completed") => state = super.messages

(* ------------------------------------------------------------------ *)
(* C31. In the single-agent graph the first node of every run is the   *)
(* chatbot; after the tools node the next node is the chatbot; after   *)
(* the chatbot the next node is tools exactly when its reply requests  *)
(* a tool call, and the run is at END otherwise; a run that reaches    *)
(* END has run the chatbot last.                                       *)
(* ------------------------------------------------------------------ *)
ChatNodeRan(name) ==
    /\ Len(chat'.trace) = Len(chat.trace) + 1
    /\ Last(chat'.trace) = name

C31_ChatbotGraphOrder ==
    [][ /\ (chat.trace = <<>> /\ Len(chat'.trace) = 1)
           => chat'.trace[1] = "chatbot"
        /\ ChatNodeRan("tools")
           => /\ chat'.goto = "chatbot"
              /\ chat.goto = "tools"
        /\ ChatNodeRan("chatbot")
           => /\ chat'.goto \in {"tools", END}
              /\ chat'.goto = "tools" <=> Last(chat'.messages).tool_calls
        /\ (chat.goto = END /\ chat.pc \in {"stream", "fallback"})
           => Last(chat.trace) = "chatbot"
        /\ chat'.status = "completed"
           => Last(chat'.trace) = "chatbot" ]_vars

\* A run of two rounds of tool calls has ended on the chatbot's reply.
C31_Witness ==
    /\ chat.pc = "input"
    /\ chat.status = "completed"
    /\ chat.trace = <<"chatbot", "tools", "chatbot", "tools", "chatbot">>
    /\ ~Last(chat.messages).tool_calls

(* ------------------------------------------------------------------ *)
(* C32. Whenever the chat page is not waiting for the backend, its     *)
(* session's message list has even length and alternates user, bot;    *)
(* a submission of an empty text leaves the list as it was.            *)
(* ------------------------------------------------------------------ *)
C32_UserBotAlternate ==
    app.running = <<>>
        => /\ Len(app.messages) % 2 = 0
           /\ \A i \in 1..Len(app.messages) :
                 app.messages[i].role = IF i % 2 = 1 THEN "user" ELSE "bot"

(* ------------------------------------------------------------------ *)
(* C33. The request FlightSearchTool._run sends carries return_date    *)
(* (and likewise return_times) exactly when the type is 1 and a        *)
(* non-empty value was passed, with that value; for types 2 and 3      *)
(* neither is in the request whatever was passed.                      *)
(* ------------------------------------------------------------------ *)
RequestSent == flights.stage = "done" /\ Truthy(serpapi_key(flights.args))

C33_ReturnLegOnlyForRoundTrip ==
    RequestSent
        => \A k \in {"return_date", "return_times"} :
              /\ k \in DOMAIN flights.request
                    <=> (flights.args.type = 1 /\ Truthy(flights.args[k]))
              /\ k \in DOMAIN flights.request
                    => flights.request[k] = flights.args[k]

\* A one-way search called with a return date and return times has sent its
\* request without them.
C33_Witness ==
    /\ RequestSent
    /\ flights.args.type = 2
    /\ flights.args.return_date = "d2"
    /\ flights.args.return_times = "t2"
    /\ flights.args.outbound_date = "d1"
    /\ "outbound_date" \in DOMAIN flights.request
    /\ "return_date" \notin DOMAIN flights.request
    /\ "return_times" \notin DOMAIN flights.request

(* ------------------------------------------------------------------ *)
(* C34. A call of WhatsAppTool._run that has returned has sent at most *)
(* one message, and only for the method send_msg_to_brother, to the    *)
(* brother's number, or for send_msg_to_number with a phone number, to *)
(* that number; for every other input nothing was sent and an error    *)
(* text was returned; the call never raises: when nothing was sent,    *)
(* what it returns is one of its error texts.                          *)
(* ------------------------------------------------------------------ *)
WhatsAppErrors ==
    {PhoneNumberRequired, UnknownMethod, "Error while sending WhatsApp message"}

Sendable(args) ==
    \/ args.method = "send_msg_to_brother"
    \/ args.method = "send_msg_to_number" /\ Truthy(args.phone_number)

C34_SendsOnlyOnKnownMethod ==
    whatsapp.stage = "done"
        => /\ whatsapp.out # Raised
           /\ Len(whatsapp.request) <= 1
           /\ whatsapp.request # <<>>
                 => /\ Sendable(whatsapp.args)
                    /\ whatsapp.request[1].content = whatsapp.args.content
                    /\ whatsapp.request[1].to =
                          IF whatsapp.args.method = "send_msg_to_brother"
                          THEN whatsapp.args.brother_number
                          ELSE whatsapp.args.phone_number
                    /\ whatsapp.out \notin WhatsAppErrors
           /\ ~Sendable(whatsapp.args)
                 => /\ whatsapp.request = <<>>
                    /\ whatsapp.out \in {PhoneNumberRequired, UnknownMethod}
           /\ whatsapp.request = <<>> => whatsapp.out \in WhatsAppErrors

\* A send to a given number has failed: the call has returned the handler's
\* error text.
C34_Witness ==
    /\ whatsapp.stage = "done"
    /\ whatsapp.args.method = "send_msg_to_number"
    /\ whatsapp.args.phone_number = "0612345678"
    /\ whatsapp.request = <<>>
    /\ whatsapp.out = "Error while sending WhatsApp message"

====
